---- MODULE Spec2Model ----
(***************************************************************************)
(* Model of youtube_transcriber.py: the URL parser (extract_video_id),     *)
(* the audio acquisition step (download_audio) and the fallback            *)
(* orchestrator (get_transcript / local_transcription).                    *)
(*                                                                         *)
(* A URL is a sequence of one-character strings.  Python's None is the    *)
(* empty sequence for video_id and err (a captured group "[^&\n?#]+" and   *)
(* an error message are never empty) and 0 for temp_dir.                   *)
(***************************************************************************)
EXTENDS Integers, Sequences, FiniteSets, TLC

VARIABLES url, options, pc, video_id, fetch_error, temp_dir, dirs, files,
          ydl, downloaded_path, segments, out, err, calls, model_used

vars == <<url, options, pc, video_id, fetch_error, temp_dir, dirs, files,
          ydl, downloaded_path, segments, out, err, calls, model_used>>

None == << >>

(***************************************************************************)
(* Bounds                                                                  *)
(***************************************************************************)
\* longest tail (in tail tokens) appended to a generated URL
MaxTailLen == 3
\* most cues / speech segments a collaborator returns
MaxSegs == 1
\* most caption tracks the caption service lists
MaxTracks == 2

(***************************************************************************)
(* Literals of the two regular expressions of extract_video_id            *)
(***************************************************************************)
WatchV == <<"y", "o", "u", "t", "u", "b", "e", ".", "c", "o", "m", "/", "w", "a", "t", "c", "h", "?", "v", "=">>
YoutuBe == <<"y", "o", "u", "t", "u", ".", "b", "e", "/">>
Embed == <<"y", "o", "u", "t", "u", "b", "e", ".", "c", "o", "m", "/", "e", "m", "b", "e", "d", "/">>
WatchQ == <<"y", "o", "u", "t", "u", "b", "e", ".", "c", "o", "m", "/", "w", "a", "t", "c", "h", "?">>
VEq == <<"v", "=">>

\* the alternatives of the first pattern, in the order the regex lists them
Alternatives == <<WatchV, YoutuBe, Embed>>

\* the characters excluded by the class [^&\n?#]
StopChars == {"&", "\n", "?", "#"}

\* the literal lit occurs in u at position i
HasAt(u, i, lit) ==
    /\ i >= 1
    /\ i + Len(lit) - 1 <= Len(u)
    /\ \A k \in 1..Len(lit) : u[i + k - 1] = lit[k]

\* last position of the greedy run [^&\n?#]* that starts at j (j-1 if empty)
RunEnd(u, j) ==
    CHOOSE e \in (j - 1)..Len(u) :
        /\ \A k \in j..e : u[k] \notin StopChars
        /\ (e = Len(u) \/ u[e + 1] \in StopChars)

\* the group ([^&\n?#]+) matched at j: the run, << >> when it is empty
Group(u, j) == IF j > Len(u) + 1 THEN << >> ELSE SubSeq(u, j, RunEnd(u, j))

\* pattern 1 anchored at position i: the first alternative, in order, whose
\* literal is at i and is followed by a non-empty group
Match1At(u, i) ==
    LET ok == {a \in 1..Len(Alternatives) :
                 /\ HasAt(u, i, Alternatives[a])
                 /\ Group(u, i + Len(Alternatives[a])) # << >>}
    IN  IF ok = {} THEN None
        ELSE LET a == CHOOSE x \in ok : \A y \in ok : x <= y
             IN  Group(u, i + Len(Alternatives[a]))

\* pattern 2 anchored at i: "youtube.com/watch?", then ".*" (greedy, no
\* newline), then "v=", then a non-empty group
Match2At(u, i) ==
    IF ~HasAt(u, i, WatchQ) THEN None
    ELSE LET s  == i + Len(WatchQ)
             ms == {m \in 0..(Len(u) - s + 1) :
                      /\ \A k \in s..(s + m - 1) : u[k] # "\n"
                      /\ HasAt(u, s + m, VEq)
                      /\ Group(u, s + m + 2) # << >>}
         IN  IF ms = {} THEN None
             ELSE LET m == CHOOSE x \in ms : \A y \in ms : x >= y
                  IN  Group(u, s + m + 2)

\* re.search: the match at the leftmost position where the pattern matches
Search1(u) ==
    LET ps == {i \in 1..Len(u) : Match1At(u, i) # None}
    IN  IF ps = {} THEN None
        ELSE Match1At(u, CHOOSE i \in ps : \A j \in ps : i <= j)

Search2(u) ==
    LET ps == {i \in 1..Len(u) : Match2At(u, i) # None}
    IN  IF ps = {} THEN None
        ELSE Match2At(u, CHOOSE i \in ps : \A j \in ps : i <= j)

\* a parser that tries the patterns in the opposite order
extract_video_id_reversed(u) ==
    IF Search2(u) # None THEN Search2(u) ELSE Search1(u)

\* for pattern in patterns: match = re.search(pattern, url) ...
extract_video_id(u) ==
    IF Search1(u) # None THEN Search1(u) ELSE Search2(u)

\* a validity check that accepts everything
is_valid_always(u) == TRUE

is_valid_youtube_url(u) == extract_video_id(u) # None


(***************************************************************************)
(* Errors: str(e) is a sequence of message parts, outermost prefix first.  *)
(* raise Exception(f"<prefix>: {str(e)}") prepends one part.               *)
(***************************************************************************)
Wrap(prefix, e) == <<prefix>> \o e

(***************************************************************************)
(* Caption Fetcher: get_youtube_transcript                                 *)
(***************************************************************************)
Langs == {"en", "de"}
UpTo(S, n) == UNION {[1..k -> S] : k \in 0..n}

\* what the caption service does on one call: list_transcripts raises or
\* lists the tracks; the second find_transcript and fetch succeed or raise
ListingErrors == {"TranscriptsDisabled", "VideoUnavailable", "NetworkError"}
ApiOutcomes ==
    [listing : ListingErrors, tracks : {<< >>}, find : {"ok"},
     fetch : {"ok"}, cues : {0}]
    \cup
    [listing : {"ok"}, tracks : UpTo(Langs, MaxTracks),
     find : {"ok", "NoTranscriptFound"}, fetch : {"ok", "FetchError"},
     cues : 0..MaxSegs]

\* the exception types of the first except clause
Unavailable == {"TranscriptsDisabled", "NoTranscriptFound", "VideoUnavailable"}

Raised(kind) ==
    IF kind \in Unavailable
    THEN [ok |-> FALSE, segments |-> 0,
          error |-> Wrap("No YouTube transcript available", <<kind>>)]
    ELSE [ok |-> FALSE, segments |-> 0,
          error |-> Wrap("Error fetching transcript", <<kind>>)]

HasEn(tracks) == \E i \in 1..Len(tracks) : tracks[i] = "en"

get_youtube_transcript(api) ==
    IF api.listing # "ok" THEN Raised(api.listing)
    ELSE IF ~HasEn(api.tracks) /\ api.tracks = << >>
         THEN Raised("No transcripts available")
    ELSE IF ~HasEn(api.tracks) /\ api.find # "ok" THEN Raised(api.find)
    ELSE IF api.fetch # "ok" THEN Raised(api.fetch)
    ELSE [ok |-> TRUE, segments |-> api.cues, error |-> None]

(***************************************************************************)
(* Audio Acquisition: download_audio                                       *)
(***************************************************************************)
Probe == <<".m4a", ".webm", ".mp4", ".mp3">>
Containers == {".m4a", ".webm", ".mp4", ".mp3", ".opus"}
DownloadErrors == {"network unreachable", "format not available"}

\* what ydl.download does: raises, or returns leaving files in the workspace
DownloadOutcomes ==
    [status : DownloadErrors, on_disk : {{}}]
    \cup [status : {"finished"}, on_disk : SUBSET Containers]

\* an acquisition step that drops the cause when it re-raises
download_audio_nocause(dl) ==
    IF dl.status # "finished"
    THEN [ok |-> FALSE, path |-> "", error |-> <<"Download failed">>]
    ELSE LET found == {i \in 1..Len(Probe) : Probe[i] \in dl.on_disk}
         IN  IF found = {}
             THEN [ok |-> FALSE, path |-> "", error |-> <<"Download failed">>]
             ELSE [ok |-> TRUE, error |-> None,
                   path |-> Probe[CHOOSE i \in found : \A j \in found : i <= j]]

download_audio(dl) ==
    IF dl.status # "finished"
    THEN [ok |-> FALSE, path |-> "",
          error |-> Wrap("Download failed", <<dl.status>>)]
    ELSE LET found == {i \in 1..Len(Probe) : Probe[i] \in dl.on_disk}
         IN  IF found = {}
             THEN [ok |-> FALSE, path |-> "",
                   error |-> Wrap("Download failed",
                                  <<"Downloaded file not found">>)]
             ELSE [ok |-> TRUE, error |-> None,
                   path |-> Probe[CHOOSE i \in found : \A j \in found : i <= j]]

(***************************************************************************)
(* Local Recognizer: transcribe_audio_local                                *)
(***************************************************************************)
RecognizerOutcomes ==
    [status : {"ok", "LoadError", "TranscribeError"}, n : 0..MaxSegs]

transcribe_audio_local(rec) ==
    IF rec.status # "ok"
    THEN [ok |-> FALSE, segments |-> 0,
          error |-> Wrap("Local transcription failed", <<rec.status>>)]
    ELSE [ok |-> TRUE, segments |-> rec.n, error |-> None]

(***************************************************************************)
(* Presenter: print_transcript, as the lines it writes to standard output  *)
(***************************************************************************)
print_transcript(n, show_timestamps, source) ==
    <<  <<"Transcript", source>>, <<"====">>  >>
    \o [i \in 1..n |-> IF show_timestamps THEN <<"[timestamp]", "text">>
                                          ELSE <<"text">>]
    \o <<  <<"====">>, <<"Total segments">>  >>

(***************************************************************************)
(* Decisions of get_transcript and local_transcription                     *)
(***************************************************************************)
\* a start rule that lets no_local veto the local-only path
StartStateVeto(opts) ==
    IF opts.local_only /\ ~opts.no_local THEN "attempt_local"
    ELSE "attempt_remote"

\* if not options.get('local_only', False): ...
StartState(opts) ==
    IF opts.local_only THEN "attempt_local" ELSE "attempt_remote"

\* a fallback policy that ignores no_local
OnFetchFailureAlwaysLocal(opts) == "attempt_local"

\* a fallback policy that never falls back
OnFetchFailureNeverLocal(opts) == "failed"

\* except Exception as e: if options.get('no_local', False): raise ...
OnFetchFailure(opts) == IF opts.no_local THEN "failed" ELSE "attempt_local"

\* a remote success that still goes on to the local attempt
OnFetchSuccessFallThrough == "attempt_local"

\* self.print_transcript(...); return
OnFetchSuccess == "done"

\* a local failure that is retried
OnLocalFailureRetry == "attempt_local"

\* except Exception as e: raise Exception(f"Local transcription failed: ...")
OnLocalFailure == "failed"

\* a cleanup that only runs when the attempt succeeded
FinallyOnSuccessOnly(ok, d, t) == IF ok /\ t # 0 /\ t \in d THEN d \ {t} ELSE d

\* finally: if self.temp_dir and os.path.exists(self.temp_dir): rmtree(...)
Finally(ok, d, t) == IF t # 0 /\ t \in d THEN d \ {t} ELSE d

\* options.get('model', 'small')
ModelArg(opts) == opts.model

(***************************************************************************)
(* State                                                                   *)
(***************************************************************************)
Models == {"tiny", "base", "small", "medium", "large"}
Options == [timestamps : BOOLEAN, local_only : BOOLEAN, no_local : BOOLEAN,
            model : Models]

\* ydl.download has not been called
NotRun == [status |-> "not run", on_disk |-> {}]

NoCalls == [fetch |-> 0, mkdtemp |-> 0, download |-> 0, transcribe |-> 0]

SampleUrls ==
    { WatchV \o <<"a", "b">>,
      <<"h", "t", "t", "p", "s", ":", "/", "/">> \o YoutuBe \o <<"a", "?", "t">>,
      Embed \o <<"b", "#", "x">>,
      WatchQ \o <<"t", "=", "1", "&">> \o VEq \o <<"a">>,
      <<"v", "i", "m", "e", "o", ".", "c", "o", "m", "/", "a">>,
      WatchV,
      << >> }

Start(u, opts) ==
    /\ url = u
    /\ options = opts
    /\ pc = "start"
    /\ video_id = None
    /\ fetch_error = None
    /\ ydl = NotRun
    /\ temp_dir = 0
    /\ dirs = {}
    /\ files = {}
    /\ downloaded_path = ""
    /\ segments = 0
    /\ out = << >>
    /\ err = None
    /\ calls = NoCalls
    /\ model_used = ""

Init == \E u \in SampleUrls, opts \in Options : Start(u, opts)

(***************************************************************************)
(* get_transcript, step by step                                            *)
(***************************************************************************)
\* lines 232-239: validity check, identifier, choice of the first attempt
Validate ==
    /\ pc = "start"
    /\ IF ~is_valid_youtube_url(url)
       THEN /\ err' = <<"Invalid YouTube URL provided">>
            /\ pc' = "failed"
            /\ UNCHANGED <<video_id, out>>
       ELSE /\ video_id' = extract_video_id(url)
            /\ out' = Append(out, <<"Processing video">> \o extract_video_id(url))
            /\ pc' = StartState(options)
            /\ err' = err
    /\ UNCHANGED <<url, options, fetch_error, temp_dir, dirs, files, ydl,
                   downloaded_path, segments, calls, model_used>>

\* lines 240-252: the remote attempt
AttemptRemote ==
    /\ pc = "attempt_remote"
    /\ \E api \in ApiOutcomes :
         LET r == get_youtube_transcript(api)
             checking == Append(out, <<"Checking for YouTube transcript...">>)
         IN  /\ calls' = [calls EXCEPT !.fetch = @ + 1]
             /\ fetch_error' = r.error
             /\ IF r.ok
                THEN /\ segments' = r.segments
                     /\ out' = checking \o
                          print_transcript(r.segments, options.timestamps, "YouTube")
                     /\ pc' = OnFetchSuccess
                     /\ err' = err
                ELSE IF OnFetchFailure(options) = "failed"
                THEN /\ err' = Wrap("No transcript available", r.error)
                     /\ pc' = "failed"
                     /\ out' = checking
                     /\ segments' = segments
                ELSE /\ out' = checking \o
                          << <<"Warning">> \o r.error,
                             <<"Falling back to local transcription...">> >>
                     /\ pc' = OnFetchFailure(options)
                     /\ UNCHANGED <<err, segments>>
    /\ UNCHANGED <<url, options, video_id, temp_dir, dirs, files, ydl,
                   downloaded_path, model_used>>

\* line 256 into lines 182-184: the workspace of the local attempt
CreateWorkspace ==
    /\ pc = "attempt_local"
    /\ calls' = [calls EXCEPT !.mkdtemp = @ + 1]
    /\ temp_dir' = calls.mkdtemp + 1
    /\ dirs' = dirs \cup {calls.mkdtemp + 1}
    /\ files' = {}
    /\ pc' = "download"
    /\ UNCHANGED <<url, options, video_id, fetch_error, ydl, downloaded_path,
                   segments, out, err, model_used>>

\* line 188; on failure lines 195-201 and 259-260
AcquireAudio ==
    /\ pc = "download"
    /\ \E dl \in DownloadOutcomes :
         LET r == download_audio(dl)
         IN  /\ calls' = [calls EXCEPT !.download = @ + 1]
             /\ ydl' = dl
             /\ out' = Append(out, <<"Downloading audio...">>)
             /\ IF r.ok
                THEN /\ downloaded_path' = r.path
                     /\ files' = dl.on_disk
                     /\ pc' = "transcribe"
                     /\ UNCHANGED <<dirs, err>>
                ELSE /\ dirs' = Finally(FALSE, dirs, temp_dir)
                     /\ files' = IF temp_dir \in dirs' THEN dl.on_disk ELSE {}
                     /\ err' = Wrap("Local transcription failed", r.error)
                     /\ pc' = OnLocalFailure
                     /\ UNCHANGED downloaded_path
    /\ UNCHANGED <<url, options, video_id, fetch_error, temp_dir, segments,
                   model_used>>

\* lines 191-201; on failure lines 259-260
Recognize ==
    /\ pc = "transcribe"
    /\ \E rec \in RecognizerOutcomes :
         LET r == transcribe_audio_local(rec)
         IN  /\ calls' = [calls EXCEPT !.transcribe = @ + 1]
             /\ model_used' = ModelArg(options)
             /\ out' = Append(out, <<"Loading Whisper model", ModelArg(options)>>)
             /\ dirs' = Finally(r.ok, dirs, temp_dir)
             /\ files' = IF temp_dir \in dirs' THEN files ELSE {}
             /\ IF r.ok
                THEN /\ segments' = r.segments
                     /\ pc' = "render_local"
                     /\ err' = err
                ELSE /\ err' = Wrap("Local transcription failed", r.error)
                     /\ pc' = OnLocalFailure
                     /\ segments' = segments
    /\ UNCHANGED <<url, options, video_id, fetch_error, temp_dir, ydl,
                   downloaded_path>>

\* line 257
RenderLocal ==
    /\ pc = "render_local"
    /\ out' = out \o print_transcript(segments, options.timestamps, "Local AI")
    /\ pc' = "done"
    /\ UNCHANGED <<url, options, video_id, fetch_error, temp_dir, dirs, files,
                   ydl, downloaded_path, segments, err, calls, model_used>>

Next ==
    \/ Validate
    \/ AttemptRemote
    \/ CreateWorkspace
    \/ AcquireAudio
    \/ Recognize
    \/ RenderLocal

Spec == Init /\ [][Next]_vars


(***************************************************************************)
(* The URL parser on generated URLs: lead ++ shape ++ identifier ++ tail   *)
(***************************************************************************)
Http == <<"h", "t", "t", "p", ":", "/", "/">>
Https == <<"h", "t", "t", "p", "s", ":", "/", "/">>
Www == <<"w", "w", "w", ".">>
Mobile == <<"m", ".">>
Not == <<"n", "o", "t">>
Evil == <<"h", "t", "t", "p", "s", ":", "/", "/", "e", "v", "i", "l", ".", "c", "o", "m", "/", "?", "u", "=">>
Vimeo == <<"v", "i", "m", "e", "o", ".", "c", "o", "m", "/">>

Leads == {<< >>, Https \o Www, Not, Evil}
Shapes == {WatchV, YoutuBe, Embed, WatchQ, Vimeo}
Ids == {<< >>, <<"a">>, <<"a", "b">>}
TailTokens == {<<"&">>, <<"?">>, <<"#">>, <<"\n">>, VEq, <<"a">>}

RECURSIVE Flat(_)
Flat(ts) == IF ts = << >> THEN << >> ELSE Head(ts) \o Flat(Tail(ts))

GeneratedUrls ==
    {l \o s \o i \o Flat(t) :
        l \in Leads, s \in Shapes, i \in Ids, t \in UpTo(TailTokens, MaxTailLen)}

InitParse ==
    \E u \in GeneratedUrls, lo \in BOOLEAN :
        Start(u, [timestamps |-> TRUE, local_only |-> lo, no_local |-> FALSE,
                  model |-> "small"])

NextParse == Validate

SpecParse == InitParse /\ [][NextParse]_vars


(***************************************************************************)
(* Vocabulary of the properties                                            *)
(***************************************************************************)
InvalidUrl == <<"Invalid YouTube URL provided">>
NotFound == <<"Local transcription failed", "Download failed",
              "Downloaded file not found">>
Terminal == {"done", "failed"}

\* number of lines of standard output equal to line
Count(line) == Cardinality({i \in 1..Len(out) : out[i] = line})

NoLocalWork ==
    /\ calls.mkdtemp = 0
    /\ calls.download = 0
    /\ calls.transcribe = 0
    /\ dirs = {}
    /\ temp_dir = 0

\* the run of characters from position j up to the first of & ? # newline
IdentifierAt(u, j) ==
    LET stops == {k \in j..Len(u) : u[k] \in {"&", "?", "#", "\n"}}
    IN  IF stops = {} THEN SubSeq(u, j, Len(u))
        ELSE SubSeq(u, j, (CHOOSE k \in stops : \A m \in stops : k <= m) - 1)

SupportedLeads == {<< >>, Http, Https, Http \o Www, Https \o Www}

\* u is a youtube.com watch or embed URL or a youtu.be short link that
\* carries a non-empty identifier
IsYouTubeUrl(u) ==
    \E s \in {<< >>, Http, Https} :
        \/ \E h \in {<< >>, Www, Mobile} :
             \/ /\ HasAt(u, 1, s \o h \o WatchQ)
                /\ \E j \in 1..Len(u) :
                     /\ HasAt(u, j, VEq)
                     /\ IdentifierAt(u, j + 2) # << >>
             \/ /\ HasAt(u, 1, s \o h \o Embed)
                /\ IdentifierAt(u, Len(s \o h \o Embed) + 1) # << >>
        \/ /\ HasAt(u, 1, s \o YoutuBe)
           /\ IdentifierAt(u, Len(s \o YoutuBe) + 1) # << >>

(***************************************************************************)
(* Properties                                                              *)
(***************************************************************************)
\* C1: with local_only the run goes from the validity check straight to the
\* local attempt: the Caption Fetcher is never invoked, whatever no_local
\* is, and the only failures left are the invalid URL and a failure of
\* acquisition or recognition.
C1_LocalOnlyNeverFetches ==
    options.local_only =>
        /\ calls.fetch = 0
        /\ pc # "attempt_remote"
        /\ fetch_error = None
        /\ pc = "failed" =>
             \/ err = InvalidUrl
             \/ /\ calls.download = 1
                /\ Head(err) = "Local transcription failed"
                /\ Head(Tail(err)) \in {"Download failed",
                                        "Local transcription failed"}

C1_Witness ==
    /\ options.local_only
    /\ options.no_local
    /\ pc = "done"
    /\ Count(<<"Transcript", "Local AI">>) = 1

\* C2: without local_only, a failed fetch under no_local ends the run in
\* FAILED with the error "No transcript available" wrapping the fetch
\* failure, and no workspace, download or recognition ever happens.
C2_NoLocalFailsWithoutLocalWork ==
    (~options.local_only /\ options.no_local /\ fetch_error # None) =>
        /\ pc = "failed"
        /\ err = Wrap("No transcript available", fetch_error)
        /\ NoLocalWork

C2_Witness ==
    /\ ~options.local_only
    /\ options.no_local
    /\ fetch_error = <<"No YouTube transcript available", "TranscriptsDisabled">>
    /\ pc = "failed"

\* C3: once local_transcription has returned or raised (the transcript is
\* about to be rendered, or the run is DONE or FAILED) the workspace it
\* created is no longer on disk.
C3_WorkspaceGoneAtResult ==
    pc \in Terminal \cup {"render_local"} =>
        /\ dirs = {}
        /\ files = {}
        /\ temp_dir \notin dirs

C3_Witness ==
    /\ pc = "failed"
    /\ calls.mkdtemp = 1
    /\ calls.transcribe = 1
    /\ temp_dir = 1
    /\ dirs = {}

\* C4: without local_only and no_local, a failed fetch of any kind leads to
\* the local attempt; the warning carrying the fetch failure is on standard
\* output before the download starts, and the run is never FAILED without
\* the download having been attempted.
C4_FetchFailureFallsBack ==
    (~options.local_only /\ ~options.no_local /\ fetch_error # None) =>
        /\ pc # "attempt_remote"
        /\ \E i \in 1..Len(out) :
             /\ out[i] = Wrap("Warning", fetch_error)
             /\ \A j \in 1..Len(out) :
                  out[j] = <<"Downloading audio...">> => i < j
        /\ calls.mkdtemp = 0 => pc = "attempt_local"
        /\ pc = "failed" =>
             /\ calls.download = 1
             /\ Head(err) = "Local transcription failed"

C4_Witness ==
    /\ ~options.local_only
    /\ ~options.no_local
    /\ fetch_error = <<"Error fetching transcript", "No transcripts available">>
    /\ pc = "download"
    /\ calls.download = 0

\* C5: without local_only, a successful fetch renders the segments once
\* under the source label "YouTube" and ends the run in DONE, with no
\* workspace, download or recognition, whatever no_local is.
C5_RemoteSuccessIsDone ==
    (~options.local_only /\ calls.fetch > 0 /\ fetch_error = None) =>
        /\ pc = "done"
        /\ err = None
        /\ Count(<<"Transcript", "YouTube">>) = 1
        /\ Count(<<"Transcript", "Local AI">>) = 0
        /\ NoLocalWork

C5_Witness ==
    /\ ~options.local_only
    /\ options.no_local
    /\ calls.fetch = 1
    /\ fetch_error = None
    /\ segments = 1
    /\ pc = "done"

\* C6: when no identifier can be extracted from the url, the run fails at
\* once with the invalid-URL error: no collaborator is invoked, no workspace
\* is created and nothing is written to standard output, for every
\* combination of local_only and no_local.
C6_InvalidUrlFailsImmediately ==
    (pc # "start" /\ extract_video_id(url) = None) =>
        /\ pc = "failed"
        /\ err = InvalidUrl
        /\ calls = NoCalls
        /\ NoLocalWork
        /\ out = << >>
        /\ video_id = None

C6_Witness ==
    /\ pc = "failed"
    /\ err = InvalidUrl
    /\ url = WatchV
    /\ options.local_only
    /\ options.no_local

\* C7: in one run every collaborator is invoked at most once, at most one
\* workspace is created, and recognition receives the model size of the
\* options.
C7_NothingRetried ==
    /\ calls.fetch <= 1
    /\ calls.mkdtemp <= 1
    /\ calls.download <= 1
    /\ calls.transcribe <= 1
    /\ calls.transcribe > 0 => model_used = options.model
    /\ Count(<<"Loading Whisper model", options.model>>) = calls.transcribe

C7_Witness ==
    /\ pc = "failed"
    /\ calls = [fetch |-> 1, mkdtemp |-> 1, download |-> 1, transcribe |-> 1]
    /\ options.model = "tiny"
    /\ model_used = "tiny"

\* C8: for a URL that is a supported shape (after an optional scheme and
\* www.) followed by a non-empty identifier and any suffix, the extracted
\* identifier is exactly the run of characters after the shape's prefix up
\* to the first of & ? # newline; and the result always comes from the
\* first pattern, in list order, that matches.
C8_ExtractsExactlyId ==
    pc # "start" =>
        /\ \A l \in SupportedLeads : \A a \in 1..Len(Alternatives) :
             (/\ HasAt(url, 1, l \o Alternatives[a])
              /\ IdentifierAt(url, Len(l \o Alternatives[a]) + 1) # << >>)
             => video_id = IdentifierAt(url, Len(l \o Alternatives[a]) + 1)
        /\ Search1(url) # None => video_id = Search1(url)
        /\ Search1(url) = None => video_id = Search2(url)

C8_Witness ==
    /\ pc # "start"
    /\ url = Https \o Www \o WatchV \o <<"a", "b", "&">> \o VEq \o <<"a">>
    /\ video_id = <<"a", "b">>

\* C9: every string that is not a youtube.com watch or embed URL or a
\* youtu.be short link with a non-empty identifier yields no identifier, and
\* the run fails with the invalid-URL error before any collaborator is
\* invoked.
C9_NonYouTubeUrlRejected ==
    (pc # "start" /\ ~IsYouTubeUrl(url)) =>
        /\ video_id = None
        /\ pc = "failed"
        /\ err = InvalidUrl
        /\ calls = NoCalls

\* C10: when the download reports completion and none of the probed files
\* exists, the failure names "Downloaded file not found" and differs from
\* the failure of every failing download step; when a probed file exists
\* the first one in probe order is the path returned.
C10_NotFoundIsDistinct ==
    calls.download > 0 =>
        /\ (ydl.status = "finished" /\ \A i \in 1..Len(Probe) :
                                         Probe[i] \notin ydl.on_disk)
           => (pc = "failed" /\ err = NotFound)
        /\ ydl.status # "finished"
           => /\ pc = "failed"
              /\ err # NotFound
              /\ err = <<"Local transcription failed", "Download failed",
                         ydl.status>>
        /\ (ydl.status = "finished" /\ \E i \in 1..Len(Probe) :
                                         Probe[i] \in ydl.on_disk)
           => \E i \in 1..Len(Probe) :
                /\ downloaded_path = Probe[i]
                /\ Probe[i] \in ydl.on_disk
                /\ \A j \in 1..(i - 1) : Probe[j] \notin ydl.on_disk

C10_Witness ==
    /\ calls.download = 1
    /\ ydl = [status |-> "finished", on_disk |-> {".opus"}]
    /\ pc = "failed"
    /\ err = NotFound

====
